---- MODULE Spec2Model ----
(***************************************************************************)
(* Model of the notebook "2. Prepare Data/create_feature_store.ipynb".     *)
(*                                                                         *)
(* The notebook is a straight-line program of code cells run top to        *)
(* bottom: it reads a CSV into the data frame transaction_data, casts the  *)
(* object columns to string, sets the event_time column, loads the feature *)
(* definitions, creates the feature group, polls its status, ingests the   *)
(* rows with three workers and looks one record up.  A cell that raises    *)
(* stops the run.  The feature store service and the SDK are the           *)
(* environment: their answers (a polled status, a failed put, a raised     *)
(* client error) are chosen nondeterministically.                          *)
(***************************************************************************)
EXTENDS Integers, Sequences, FiniteSets, TLC

VARIABLES
    pc,                 \* the position of the run in the notebook
    err,                \* the error that stopped the run, or NoError
    transaction_data,   \* the data frame
    csv_data,           \* history: the frame as read_csv returned it
    pre_event_time,     \* history: the frame just before the event_time assignment
    label_pos,          \* cast_object_to_string: position of the for loop in data_frame.columns
    current_time_sec,   \* int(round(time.time()))
    fd_feature_group,   \* the FeatureGroup object: its name and feature definitions
    service,            \* what the service was asked to create, and what it answered
    status,             \* wait_for_feature_group_creation_complete: the local status
    wait,               \* counters of the wait: describe calls, sleeps, prints
    ingestion,          \* the ingest call: its arguments, the workers' progress, failed rows
    online_store,       \* the online store: one entry (key, row, record) per record identifier
    lookup,             \* the get_record call: how often, its arguments, its answer
    stored,             \* what the last cell's store magic kept
    steps               \* history: the feature-store steps invoked so far, in order

vars == <<pc, err, transaction_data, csv_data, pre_event_time, label_pos,
          current_time_sec, fd_feature_group, service, status, wait,
          ingestion, online_store, lookup, stored, steps>>

----------------------------------------------------------------------------
(* Bounds of the model. *)

\* Rows of the CSV.
MaxRows == 3
\* Polls of the feature group status that may answer "Creating".
MaxPolls == 3

----------------------------------------------------------------------------
(* Program constants. *)

fd_feature_group_name == "transactionfeaturegroup001"
record_identifier_feature_name == "record_id"
event_time_feature_name == "event_time"
\* ingest(..., max_workers=3, wait=True)
max_workers == 3
\* ingest called without waiting for the workers
IngestWait_False == FALSE
IngestWait == TRUE
\* the value of time.time() rounded, when the cell runs (the recorded run
\* stored 1629776605.0)
Times == {1629776605, 1629776606}
\* record_identifier_value = str(100)
LookupId == 100

----------------------------------------------------------------------------
(* Cell values.  A cell is an int, a float (the model keeps floats          *)
(* integer-valued), a Python str, or NaN (a missing cell of a float or      *)
(* object column).                                                          *)

IntV(n)   == [t |-> "int",   n |-> n, s |-> ""]
FloatV(n) == [t |-> "float", n |-> n, s |-> ""]
StrV(s)   == [t |-> "str",   n |-> 0, s |-> s]
NaN       == [t |-> "nan",   n |-> 0, s |-> ""]

Digit == <<"0", "1", "2", "3", "4", "5", "6", "7", "8", "9">>

RECURSIVE IntToStr(_)
\* str(n) of a non-negative int
IntToStr(n) ==
    IF n < 10 THEN Digit[n + 1]
    ELSE IntToStr(n \div 10) \o Digit[(n % 10) + 1]

\* str(v) of a cell value, as astype("str") and the SDK's ValueAsString apply it
PyStr(v) ==
    CASE v.t = "int"   -> IntToStr(v.n)
      [] v.t = "float" -> IntToStr(v.n) \o ".0"
      [] v.t = "str"   -> v.s
      [] v.t = "nan"   -> "nan"

----------------------------------------------------------------------------
(* Data frames: the columns in order (label, dtype, values by position)     *)
(* and the row index.                                                       *)

EmptyFrame == [cols |-> <<>>, index |-> <<>>]

Labels(df) == {df.cols[i].label : i \in DOMAIN df.cols}
ColPos(df, label) == CHOOSE i \in DOMAIN df.cols : df.cols[i].label = label
Column(df, label) == df.cols[ColPos(df, label)]
NRows(df) == Len(df.index)

\* RangeIndex(n): the index read_csv gives a frame of n rows
RangeIndex(n) == [i \in 1..n |-> i - 1]

\* The columns a CSV of the model may hold, in the file's order.  The
\* recorded data has float features, the int class, a string event_time and
\* the int record_id, in this order; "note" stands for any other text column.
Pool == << [label |-> "note",       dtype |-> "object"],
           [label |-> "amount",     dtype |-> "float64"],
           [label |-> "event_time", dtype |-> "object"],
           [label |-> "record_id",  dtype |-> "int64"] >>

PoolLabels == {Pool[i].label : i \in DOMAIN Pool}
IdValues == {7, LookupId}
NoMiss == <<"", 0>>

\* The cell of column label in row r (1-based position) of a CSV whose record
\* ids are ids and whose one missing cell, if any, is miss.
CsvCell(c, r, ids, miss) ==
    IF miss = <<c.label, r>> THEN NaN
    ELSE CASE c.label = "record_id"  -> IntV(ids[r])
           [] c.label = "amount"     -> FloatV(10 * r + 5)
           [] c.label = "event_time" -> StrV("2021-08-24 03:42:37.420039")
           [] OTHER                  -> StrV(IF r = 1 THEN "a" ELSE "b")

\* pd.read_csv: labels are unique (read_csv renames duplicates), dtypes are
\* inferred per column, the index is a RangeIndex.
ReadCsvFrame(keep, n, ids, miss) ==
    LET chosen == SelectSeq(Pool, LAMBDA c : c.label \in keep)
    IN  [cols  |-> [i \in DOMAIN chosen |->
                      [label |-> chosen[i].label,
                       dtype |-> chosen[i].dtype,
                       vals  |-> [r \in 1..n |-> CsvCell(chosen[i], r, ids, miss)]]],
         index |-> RangeIndex(n)]

\* The frames read_csv may return: any selection of the columns, 0..MaxRows
\* rows, any record ids, at most one missing cell (int64 columns hold no NaN).
Frames ==
    {ReadCsvFrame(keep, n, ids, miss) :
        keep \in SUBSET PoolLabels, n \in 0..MaxRows,
        ids \in [1..MaxRows -> IdValues],
        miss \in {NoMiss} \cup (PoolLabels \ {"record_id"}) \X (1..MaxRows)}

----------------------------------------------------------------------------
(* pandas operations the notebook uses. *)

\* A Series: values and index labels, by position.
Series(values, index) == [vals |-> values, index |-> index]

\* The value a Series holds for index label k, NaN when it has none
\* (the alignment of data_frame[label] = series).
Aligned(series, k) ==
    IF \E j \in DOMAIN series.index : series.index[j] = k
    THEN series.vals[CHOOSE j \in DOMAIN series.index : series.index[j] = k]
    ELSE NaN

\* an assignment that drops an existing column and appends the new one last
SetItem_DropAndAppend(df, label, dtype, series) ==
    LET col == [label |-> label, dtype |-> dtype,
                vals  |-> [r \in DOMAIN df.index |-> Aligned(series, df.index[r])]]
    IN  [df EXCEPT !.cols = Append(SelectSeq(df.cols, LAMBDA c : c.label # label), col)]

\* data_frame[label] = series with the given dtype: an existing column is
\* replaced in place, a new label is appended as the last column.
SetItem(df, label, dtype, series) ==
    LET col == [label |-> label, dtype |-> dtype,
                vals  |-> [r \in DOMAIN df.index |-> Aligned(series, df.index[r])]]
    IN  IF label \in Labels(df)
        THEN [df EXCEPT !.cols[ColPos(df, label)] = col]
        ELSE [df EXCEPT !.cols = Append(df.cols, col)]

\* data_frame[label].astype("str").astype("string")
AsString(df, label) ==
    LET c == Column(df, label)
    IN  Series([r \in DOMAIN c.vals |-> StrV(PyStr(c.vals[r]))], df.index)

\* the series indexed from 1 instead of 0
EventTimeSeries_FromOne(t, n) == Series([i \in 1..n |-> FloatV(t)], [i \in 1..n |-> i])

\* pd.Series([current_time_sec]*len(transaction_data), dtype="float64")
EventTimeSeries(t, n) == Series([i \in 1..n |-> FloatV(t)], RangeIndex(n))

\* data_frame.dtypes[label] == 'object'
IsObject(df, label) == Column(df, label).dtype = "object"

----------------------------------------------------------------------------
(* The SDK and the service, as the notebook's calls see them. *)

\* load_feature_definitions: the feature type the SDK infers from a dtype;
\* it raises ValueError for a dtype it does not map (object among them).
FeatureType(dtype) ==
    CASE dtype = "int64"   -> "Integral"
      [] dtype = "float64" -> "Fractional"
      [] dtype = "string"  -> "String"
      [] OTHER             -> "Unknown"

FeatureDefinitions(df) ==
    [i \in DOMAIN df.cols |->
        [FeatureName |-> df.cols[i].label,
         FeatureType |-> FeatureType(df.cols[i].dtype)]]

FeatureNames(defs) == {defs[i].FeatureName : i \in DOMAIN defs}

\* FeatureGroupStatus of a describe response; NoStatus is a response without
\* the field, which .get reads as None.
NoStatus == "<None>"
StatusAnswers ==
    {"Creating", "Created", "CreateFailed", "Deleting", "DeleteFailed", NoStatus}

\* What the k+1-th describe of the wait may answer.
Polled(k) == IF k < MaxPolls THEN StatusAnswers ELSE StatusAnswers \ {"Creating"}

\* The record the SDK puts for row r: one FeatureValue per cell that is not
\* NaN, its value as str.
RecordOf(df, r) ==
    LET present == SelectSeq(df.cols, LAMBDA c : c.vals[r].t # "nan")
    IN  [i \in DOMAIN present |->
            [FeatureName |-> present[i].label,
             ValueAsString |-> PyStr(present[i].vals[r])]]

\* The record identifier of row r, as the string the online store keys it by.
RecordKey(df, r) == PyStr(Column(df, record_identifier_feature_name).vals[r])

\* ingest splits the rows into max_workers batches of ceil(n / max_workers)
\* rows; worker w (0-based) puts rows BatchFirst..BatchLast (1-based).
BatchSize(n) == (n + max_workers - 1) \div max_workers
BatchFirst(n, w) == w * BatchSize(n) + 1
BatchLast(n, w) ==
    IF (w + 1) * BatchSize(n) < n THEN (w + 1) * BatchSize(n) ELSE n
Workers == 0..(max_workers - 1)

----------------------------------------------------------------------------
(* The run. *)

NoError == [origin |-> "", kind |-> "", at |-> ""]
\* an exception of the given origin and kind, raised at the current position
Raised(origin, kind) == [origin |-> origin, kind |-> kind, at |-> pc]

\* the order with the call of the wait left out of the create cell
After_NoWait(p) ==
    CASE p = "read_csv"   -> "new_fg"
      [] p = "new_fg"     -> "time"
      [] p = "time"       -> "cast"
      [] p = "cast"       -> "event_time"
      [] p = "event_time" -> "load_defs"
      [] p = "load_defs"  -> "create"
      [] p = "create"     -> "describe"
      [] p = "describe"   -> "ingest"
      [] p = "ingest"     -> "ingesting"
      [] p = "ingesting"  -> "get_record"
      [] p = "get_record" -> "store"
      [] p = "store"      -> "done"

\* The notebook's order: the position that follows p when the step at p
\* completes without raising.
After(p) ==
    CASE p = "read_csv"   -> "new_fg"
      [] p = "new_fg"     -> "time"
      [] p = "time"       -> "cast"
      [] p = "cast"       -> "event_time"
      [] p = "event_time" -> "load_defs"
      [] p = "load_defs"  -> "create"
      [] p = "create"     -> "wait_enter"
      [] p = "wait_enter" -> "wait_loop"
      [] p = "wait_loop"  -> "describe"
      [] p = "describe"   -> "ingest"
      [] p = "ingest"     -> "ingesting"
      [] p = "ingesting"  -> "get_record"
      [] p = "get_record" -> "store"
      [] p = "store"      -> "done"

NoLookup == [calls |-> 0, name |-> "", id |-> "", found |-> FALSE, record |-> <<>>]
NoIngestion ==
    [calls |-> 0, started |-> FALSE, returned |-> FALSE, wait |-> FALSE, name |-> "",
     workers |-> 0, data |-> EmptyFrame, next |-> [w \in Workers |-> 1],
     failed |-> {}, put |-> {}]

\* The feature-store steps of the notebook, by the position that invokes them
\* (the wait is invoked once, where it is entered).
StepName(p) ==
    CASE p = "new_fg"     -> "FeatureGroup"
      [] p = "load_defs"  -> "load_feature_definitions"
      [] p = "create"     -> "create"
      [] p = "wait_enter" -> "wait"
      [] p = "ingest"     -> "ingest"
      [] p = "get_record" -> "get_record"
      [] OTHER            -> ""

\* steps, with the step the current position invokes
Invoked == IF StepName(pc) = "" THEN steps ELSE Append(steps, StepName(pc))

Init ==
    /\ pc = "read_csv"
    /\ err = NoError
    /\ transaction_data = EmptyFrame
    /\ csv_data = EmptyFrame
    /\ pre_event_time = EmptyFrame
    /\ label_pos = 0
    /\ current_time_sec = 0
    /\ fd_feature_group = [name |-> "", defs |-> <<>>]
    /\ service = [created |-> FALSE, name |-> "", record_identifier_name |-> "",
                  event_time_feature_name |-> "", polled |-> <<>>]
    /\ status = ""
    /\ wait = [describes |-> 0, sleeps |-> 0, prints |-> 0, success |-> FALSE]
    /\ ingestion = NoIngestion
    /\ online_store = {}
    /\ lookup = NoLookup
    /\ stored = ""
    /\ steps = <<>>

\* transaction_data = pd.read_csv(io.BytesIO(data_object['Body'].read()))
ReadCsv ==
    /\ pc = "read_csv"
    /\ steps' = Invoked
    /\ \E f \in Frames :
          /\ transaction_data' = f
          /\ csv_data' = f
    /\ pc' = After(pc)
    /\ UNCHANGED <<err, pre_event_time, label_pos, current_time_sec,
                   fd_feature_group, service, status, wait, ingestion,
                   online_store, lookup, stored>>

\* fd_feature_group = FeatureGroup(name=fd_feature_group_name, ...)
NewFeatureGroup ==
    /\ pc = "new_fg"
    /\ steps' = Invoked
    /\ fd_feature_group' = [name |-> fd_feature_group_name, defs |-> <<>>]
    /\ pc' = After(pc)
    /\ UNCHANGED <<err, transaction_data, csv_data, pre_event_time, label_pos,
                   current_time_sec, service, status, wait, ingestion,
                   online_store, lookup, stored>>

\* current_time_sec = int(round(time.time())), then the call of
\* cast_object_to_string(transaction_data) enters its for loop
TakeTime ==
    /\ pc = "time"
    /\ steps' = Invoked
    /\ current_time_sec' \in Times
    /\ label_pos' = 1
    /\ pc' = After(pc)
    /\ UNCHANGED <<err, transaction_data, csv_data, pre_event_time,
                   fd_feature_group, service, status, wait, ingestion,
                   online_store, lookup, stored>>

\* the cast stopping at astype("str"), which leaves the dtype object
CastLabel_StrOnly(df, pos) ==
    LET label == df.cols[pos].label
    IN  IF IsObject(df, label)
        THEN SetItem(df, label, "object", AsString(df, label))
        ELSE df

\* One iteration of the for loop of cast_object_to_string, over the label at
\* position pos of data_frame.columns.
CastLabel(df, pos) ==
    LET label == df.cols[pos].label
    IN  IF IsObject(df, label)
        THEN SetItem(df, label, "string", AsString(df, label))
        ELSE df

CastStep ==
    /\ pc = "cast"
    /\ steps' = Invoked
    /\ label_pos <= Len(transaction_data.cols)
    /\ transaction_data' = CastLabel(transaction_data, label_pos)
    /\ label_pos' = label_pos + 1
    /\ UNCHANGED <<pc, err, csv_data, pre_event_time, current_time_sec,
                   fd_feature_group, service, status, wait, ingestion,
                   online_store, lookup, stored>>

\* the for loop is exhausted: cast_object_to_string returns (None)
CastReturn ==
    /\ pc = "cast"
    /\ steps' = Invoked
    /\ label_pos > Len(transaction_data.cols)
    /\ pc' = After(pc)
    /\ UNCHANGED <<err, transaction_data, csv_data, pre_event_time, label_pos,
                   current_time_sec, fd_feature_group, service, status, wait,
                   ingestion, online_store, lookup, stored>>

\* transaction_data[event_time_feature_name] = pd.Series(..., dtype="float64")
WithEventTime(df, t) ==
    SetItem(df, event_time_feature_name, "float64", EventTimeSeries(t, NRows(df)))

AppendEventTime ==
    /\ pc = "event_time"
    /\ steps' = Invoked
    /\ pre_event_time' = transaction_data
    /\ transaction_data' = WithEventTime(transaction_data, current_time_sec)
    /\ pc' = After(pc)
    /\ UNCHANGED <<err, csv_data, label_pos, current_time_sec, fd_feature_group,
                   service, status, wait, ingestion, online_store, lookup, stored>>

\* fd_feature_group.load_feature_definitions(data_frame=transaction_data)
LoadFeatureDefinitions ==
    /\ pc = "load_defs"
    /\ steps' = Invoked
    /\ LET defs == FeatureDefinitions(transaction_data)
       IN  IF \E i \in DOMAIN defs : defs[i].FeatureType = "Unknown"
           THEN /\ err' = Raised("sdk", "ValueError")
                /\ pc' = "halted"
                /\ UNCHANGED fd_feature_group
           ELSE /\ fd_feature_group' = [fd_feature_group EXCEPT !.defs = defs]
                /\ pc' = After(pc)
                /\ UNCHANGED err
    /\ UNCHANGED <<transaction_data, csv_data, pre_event_time, label_pos,
                   current_time_sec, service, status, wait, ingestion,
                   online_store, lookup, stored>>

\* fd_feature_group.create(record_identifier_name=..., event_time_feature_name=...,
\* enable_online_store=True): the service refuses a record identifier or an
\* event time feature that is not one of the feature definitions.
Create ==
    /\ pc = "create"
    /\ steps' = Invoked
    /\ IF {record_identifier_feature_name, event_time_feature_name}
             \subseteq FeatureNames(fd_feature_group.defs)
       THEN /\ service' = [service EXCEPT
                              !.created = TRUE,
                              !.name = fd_feature_group.name,
                              !.record_identifier_name = record_identifier_feature_name,
                              !.event_time_feature_name = event_time_feature_name]
            /\ pc' = After(pc)
            /\ UNCHANGED err
       ELSE /\ err' = Raised("sdk", "ClientError")
            /\ pc' = "halted"
            /\ UNCHANGED service
    /\ UNCHANGED <<transaction_data, csv_data, pre_event_time, label_pos,
                   current_time_sec, fd_feature_group, status, wait, ingestion,
                   online_store, lookup, stored>>

----------------------------------------------------------------------------
(* wait_for_feature_group_creation_complete(feature_group=fd_feature_group) *)

\* a loop that gives up after a maximum number of polls
StillCreating_MaxTries(s) == s = "Creating" /\ wait.describes < 2

\* while status == "Creating"
StillCreating(s) == s = "Creating"

\* a check that knows only the failure status by name
NotCreated_OnlyCreateFailed(s) == s = "CreateFailed"

\* the check left out
NotCreated_Never(s) == FALSE

\* if status != "Created"
NotCreated(s) == s # "Created"

\* feature_group.describe().get("FeatureGroupStatus"), one more call
Describe(s) ==
    /\ status' = s
    /\ service' = [service EXCEPT !.polled = Append(@, s)]

\* status = feature_group.describe().get("FeatureGroupStatus") on entry
WaitEnter ==
    /\ pc = "wait_enter"
    /\ steps' = Invoked
    /\ \E s \in Polled(wait.describes) : Describe(s)
    /\ wait' = [wait EXCEPT !.describes = @ + 1]
    /\ pc' = After(pc)
    /\ UNCHANGED <<err, transaction_data, csv_data, pre_event_time, label_pos,
                   current_time_sec, fd_feature_group, ingestion, online_store,
                   lookup, stored>>

\* the loop body: print, time.sleep(5), describe again
WaitIterate ==
    /\ pc = "wait_loop"
    /\ steps' = Invoked
    /\ StillCreating(status)
    /\ \E s \in Polled(wait.describes) : Describe(s)
    /\ wait' = [wait EXCEPT !.prints = @ + 1, !.sleeps = @ + 1, !.describes = @ + 1]
    /\ UNCHANGED <<pc, err, transaction_data, csv_data, pre_event_time, label_pos,
                   current_time_sec, fd_feature_group, ingestion, online_store,
                   lookup, stored>>

\* the check asking the service again instead of using the status the loop
\* ended on
WaitCheck_DescribeAgain ==
    /\ pc = "wait_loop"
    /\ steps' = Invoked
    /\ ~StillCreating(status)
    /\ \E s \in StatusAnswers \ {"Creating"} :
          /\ Describe(s)
          /\ IF NotCreated(s)
             THEN /\ err' = Raised("notebook", "RuntimeError")
                  /\ pc' = "halted"
                  /\ wait' = [wait EXCEPT !.describes = @ + 1]
             ELSE /\ wait' = [wait EXCEPT !.describes = @ + 1, !.success = TRUE]
                  /\ pc' = After(pc)
                  /\ UNCHANGED err
    /\ UNCHANGED <<transaction_data, csv_data, pre_event_time, label_pos,
                   current_time_sec, fd_feature_group, ingestion,
                   online_store, lookup, stored>>

\* after the loop: raise RuntimeError, or print the success message and return
WaitCheck ==
    /\ pc = "wait_loop"
    /\ steps' = Invoked
    /\ ~StillCreating(status)
    /\ IF NotCreated(status)
       THEN /\ err' = Raised("notebook", "RuntimeError")
            /\ pc' = "halted"
            /\ UNCHANGED wait
       ELSE /\ wait' = [wait EXCEPT !.success = TRUE]
            /\ pc' = After(pc)
            /\ UNCHANGED err
    /\ UNCHANGED <<transaction_data, csv_data, pre_event_time, label_pos,
                   current_time_sec, fd_feature_group, service, status, ingestion,
                   online_store, lookup, stored>>

\* the cell fd_feature_group.describe(): the response is only displayed
DescribeCell ==
    /\ pc = "describe"
    /\ steps' = Invoked
    /\ pc' = After(pc)
    /\ UNCHANGED <<err, transaction_data, csv_data, pre_event_time, label_pos,
                   current_time_sec, fd_feature_group, service, status, wait,
                   ingestion, online_store, lookup, stored>>

----------------------------------------------------------------------------
(* fd_feature_group.ingest(data_frame=transaction_data, max_workers=3,      *)
(* wait=True)                                                               *)

RowsLeft(w) ==
    /\ ingestion.started
    /\ w < ingestion.workers
    /\ ingestion.next[w] <= BatchLast(NRows(ingestion.data), w)

WorkersActive == \E w \in Workers : RowsLeft(w)

\* the call: the rows are split among the workers, which start putting
IngestCall ==
    /\ pc = "ingest"
    /\ steps' = Invoked
    /\ ingestion' = [ingestion EXCEPT
                        !.calls = @ + 1,
                        !.started = TRUE,
                        !.wait = IngestWait,
                        !.name = fd_feature_group.name,
                        !.workers = max_workers,
                        !.data = transaction_data,
                        !.next = [w \in Workers |->
                                    BatchFirst(NRows(transaction_data), w)]]
    /\ pc' = After(pc)
    /\ UNCHANGED <<err, transaction_data, csv_data, pre_event_time, label_pos,
                   current_time_sec, fd_feature_group, service, status, wait,
                   online_store, lookup, stored>>

\* PutRecord of row r: the online store keeps one record per identifier, the
\* one with the latest event time; between equal event times either may stay.
PutRecord(r, overwrite) ==
    LET df == ingestion.data
        key == RecordKey(df, r)
        entry == [key |-> key, row |-> r, record |-> RecordOf(df, r)]
    IN  IF \E e \in online_store : e.key = key
        THEN IF overwrite
             THEN {e \in online_store : e.key # key} \cup {entry}
             ELSE online_store
        ELSE online_store \cup {entry}

\* a worker puts the next row of its batch; the put succeeds or fails
WorkerPut ==
    /\ \E w \in Workers :
          /\ RowsLeft(w)
          /\ LET r == ingestion.next[w]
             IN  \E ok \in BOOLEAN, overwrite \in BOOLEAN :
                   /\ ingestion' = [ingestion EXCEPT
                          !.next[w] = r + 1,
                          !.put = IF ok THEN @ \cup {r} ELSE @,
                          !.failed = IF ok THEN @ ELSE @ \cup {r}]
                   /\ online_store' = IF ok THEN PutRecord(r, overwrite)
                                             ELSE online_store
    /\ UNCHANGED <<pc, err, transaction_data, csv_data, pre_event_time, label_pos,
                   current_time_sec, fd_feature_group, service, status, wait,
                   lookup, stored, steps>>

\* ingest returns: with wait=True only when every worker has finished, and
\* then it raises IngestionError when a row failed
IngestReturn ==
    /\ pc = "ingesting"
    /\ steps' = Invoked
    /\ ingestion.wait => ~WorkersActive
    /\ IF ingestion.wait /\ ingestion.failed # {}
       THEN /\ err' = Raised("sdk", "IngestionError")
            /\ pc' = "halted"
            /\ UNCHANGED ingestion
       ELSE /\ ingestion' = [ingestion EXCEPT !.returned = TRUE]
            /\ pc' = After(pc)
            /\ UNCHANGED err
    /\ UNCHANGED <<transaction_data, csv_data, pre_event_time, label_pos,
                   current_time_sec, fd_feature_group, service, status, wait,
                   online_store, lookup, stored>>

----------------------------------------------------------------------------
(* The lookup and the last cell. *)

\* the identifier taken as the str of a float
record_identifier_value_AsFloat == PyStr(FloatV(LookupId))

\* record_identifier_value = str(100)
record_identifier_value == IntToStr(LookupId)

\* featurestore_runtime.get_record(FeatureGroupName=fd_feature_group_name,
\*     RecordIdentifierValueAsString=record_identifier_value)
GetRecord ==
    /\ pc = "get_record"
    /\ steps' = Invoked
    /\ LET hit == {e \in online_store : e.key = record_identifier_value}
       IN  lookup' = [calls  |-> lookup.calls + 1,
                      name   |-> fd_feature_group_name,
                      id     |-> record_identifier_value,
                      found  |-> hit # {},
                      record |-> IF hit # {} THEN (CHOOSE e \in hit : TRUE).record
                                             ELSE <<>>]
    /\ pc' = After(pc)
    /\ UNCHANGED <<err, transaction_data, csv_data, pre_event_time, label_pos,
                   current_time_sec, fd_feature_group, service, status, wait,
                   ingestion, online_store, stored>>

\* "% store fd_feature_group_name": IPython either runs the store magic or
\* reports the line as a usage error
StoreName ==
    /\ pc = "store"
    /\ steps' = Invoked
    /\ \/ /\ stored' = fd_feature_group_name
          /\ pc' = After(pc)
          /\ UNCHANGED err
       \/ /\ err' = Raised("ipython", "UsageError")
          /\ pc' = "halted"
          /\ UNCHANGED stored
    /\ UNCHANGED <<transaction_data, csv_data, pre_event_time, label_pos,
                   current_time_sec, fd_feature_group, service, status, wait,
                   ingestion, online_store, lookup>>

\* The calls into boto3 and the SDK: each may raise a client error instead of
\* answering (the describe inside the wait loop runs only while the status
\* is "Creating").
VendorCalls == {"read_csv", "create", "wait_enter", "wait_loop", "describe",
                "ingest", "get_record"}

VendorRaises ==
    /\ pc \in VendorCalls
    /\ steps' = Invoked
    /\ pc = "wait_loop" => StillCreating(status)
    /\ err' = Raised("sdk", "ClientError")
    /\ pc' = "halted"
    /\ UNCHANGED <<transaction_data, csv_data, pre_event_time, label_pos,
                   current_time_sec, fd_feature_group, service, status, wait,
                   ingestion, online_store, lookup, stored>>

Next ==
    \/ ReadCsv
    \/ NewFeatureGroup
    \/ TakeTime
    \/ CastStep
    \/ CastReturn
    \/ AppendEventTime
    \/ LoadFeatureDefinitions
    \/ Create
    \/ WaitEnter
    \/ WaitIterate
    \/ WaitCheck
    \/ DescribeCell
    \/ IngestCall
    \/ WorkerPut
    \/ IngestReturn
    \/ GetRecord
    \/ StoreName
    \/ VendorRaises

Spec == Init /\ [][Next]_vars

\* The interpreter runs the next statement of the wait; a describe call
\* answers or raises.
LiveSpec ==
    Spec /\ WF_vars(WaitEnter) /\ WF_vars(WaitIterate) /\ WF_vars(WaitCheck)

----------------------------------------------------------------------------
(* Properties. *)

\* Where the run is: the position it stopped at when it raised.
Position == IF pc = "halted" THEN err.at ELSE pc

\* Positions in the notebook's order.
Rank(p) ==
    CASE p = "read_csv"   -> 0
      [] p = "new_fg"     -> 1
      [] p = "time"       -> 2
      [] p = "cast"       -> 3
      [] p = "event_time" -> 4
      [] p = "load_defs"  -> 5
      [] p = "create"     -> 6
      [] p = "wait_enter" -> 7
      [] p = "wait_loop"  -> 8
      [] p = "describe"   -> 9
      [] p = "ingest"     -> 10
      [] p = "ingesting"  -> 11
      [] p = "get_record" -> 12
      [] p = "store"      -> 13
      [] p = "done"       -> 14

\* The polls of the wait that did not answer "Creating", in order.
Terminal(polled) == SelectSeq(polled, LAMBDA s : s # "Creating")

WaitRaised == err = [origin |-> "notebook", kind |-> "RuntimeError", at |-> "wait_loop"]

\* C1: wait_for_feature_group_creation_complete raises RuntimeError exactly
\* when the first polled status that is not "Creating" differs from "Created"
\* (a missing status field included), and returns normally, the success
\* message printed, exactly when that status is "Created"; no other error is
\* raised by the notebook's own code.
C1_WaitRaisesIffNotCreated ==
    LET term == Terminal(service.polled)
    IN  /\ WaitRaised => Len(term) = 1 /\ term[1] # "Created"
        /\ wait.success => Len(term) = 1 /\ term[1] = "Created" /\ ~WaitRaised
        /\ (Len(term) > 0 /\ pc # "wait_loop") =>
              IF term[1] = "Created"
              THEN wait.success /\ err.origin # "notebook"
              ELSE WaitRaised /\ pc = "halted" /\ ~wait.success
        /\ Rank(Position) > Rank("wait_loop") => wait.success
        /\ err.origin = "notebook" => WaitRaised

\* the wait raised on a response without a status field, after a poll that
\* answered "Creating"
C1_Witness ==
    /\ WaitRaised
    /\ service.polled = <<"Creating", NoStatus>>

InvokedStep(name) == \E i \in DOMAIN steps : steps[i] = name
TimesInvoked(name) == Cardinality({i \in DOMAIN steps : steps[i] = name})
AllRows == 1..NRows(ingestion.data)

\* C2: ingest is invoked only after create() returned and a describe() poll
\* answered "Created"; when create or the wait raises, neither ingest nor
\* get_record is invoked in that run.
C2_IngestOnlyAfterCreated ==
    /\ (InvokedStep("ingest") \/ ingestion.calls > 0) =>
          /\ service.created
          /\ \E i \in DOMAIN service.polled : service.polled[i] = "Created"
          /\ wait.success
    /\ (pc = "halted" /\ err.at \in {"create", "wait_enter", "wait_loop"}) =>
          /\ ~InvokedStep("ingest") /\ ~InvokedStep("get_record")
          /\ ingestion.calls = 0 /\ ~ingestion.started /\ online_store = {}
          /\ lookup.calls = 0

\* ingest was called after two polls answered "Creating" and the third "Created"
C2_Witness ==
    /\ ingestion.calls = 1
    /\ service.polled = <<"Creating", "Creating", "Created">>

\* C3: get_record is called at most once, only after ingest has returned,
\* never before or during ingestion, for the feature group that was created
\* and ingested into ('transactionfeaturegroup001') and record identifier "100".
C3_SingleLookupAfterIngest ==
    /\ lookup.calls <= 1 /\ TimesInvoked("get_record") <= 1
    /\ Rank(Position) < Rank("get_record") =>
          lookup.calls = 0 /\ ~InvokedStep("get_record")
    /\ InvokedStep("get_record") =>
          ingestion.returned /\ ~WorkersActive
    /\ lookup.calls > 0 =>
          /\ lookup.name = "transactionfeaturegroup001"
          /\ lookup.name = service.name /\ service.created
          /\ lookup.name = ingestion.name
          /\ lookup.id = "100"

\* the lookup ran and found a record, after three rows were put
C3_Witness ==
    /\ lookup.calls = 1 /\ lookup.found
    /\ ingestion.put = {1, 2, 3}

\* C5: ingest is invoked exactly once, with wait=True and 3 workers; it
\* returns only when every worker has finished its rows, so the lookup never
\* runs while a worker is active.
C5_IngestBlocksUntilWorkersDone ==
    /\ ingestion.calls <= 1 /\ TimesInvoked("ingest") <= 1
    /\ Rank(Position) > Rank("ingest") =>
          ingestion.calls = 1 /\ ingestion.wait /\ ingestion.workers = 3
    /\ ingestion.returned =>
          ~WorkersActive /\ ingestion.put \cup ingestion.failed = AllRows
    /\ (Rank(Position) > Rank("ingesting") \/ lookup.calls > 0) =>
          ingestion.returned /\ ~WorkersActive

\* ingest has returned and the lookup is next; each of the three workers had
\* a row to put
C5_Witness ==
    /\ pc = "get_record"
    /\ ingestion.returned
    /\ NRows(ingestion.data) = 3 /\ ingestion.put = {1, 2, 3}

\* The feature-store steps in the documented order.
Order == <<"FeatureGroup", "load_feature_definitions", "create", "wait",
           "ingest", "get_record">>

StepPositions == {"new_fg", "load_defs", "create", "wait_enter", "ingest", "get_record"}

\* C7: the steps run in the documented order, each at most once: the feature
\* group object, the feature definitions loaded from the data frame, create
\* with record_id and event_time, the wait, ingest, the lookup; a step that
\* raises is the last step of the run.
C7_StepsInOrder ==
    /\ Len(steps) <= Len(Order)
    /\ \A i \in DOMAIN steps : steps[i] = Order[i]
    /\ Len(steps) =
          IF pc = "halted"
          THEN Cardinality({q \in StepPositions : Rank(q) <= Rank(err.at)})
          ELSE Cardinality({q \in StepPositions : Rank(q) < Rank(pc)})
    /\ err # NoError <=> pc = "halted"
    /\ InvokedStep("create") =>
          /\ fd_feature_group.name = "transactionfeaturegroup001"
          /\ Len(fd_feature_group.defs) = Len(transaction_data.cols)
          /\ \A i \in DOMAIN fd_feature_group.defs :
                fd_feature_group.defs[i].FeatureName = transaction_data.cols[i].label
    /\ service.created =>
          /\ service.name = "transactionfeaturegroup001"
          /\ service.record_identifier_name = "record_id"
          /\ service.event_time_feature_name = "event_time"

\* a run that went through all six steps
C7_Witness ==
    /\ pc = "done"
    /\ steps = Order

ObjectColumns(df) == {i \in DOMAIN df.cols : df.cols[i].dtype = "object"}

\* C8: when cast_object_to_string has returned, no column has dtype object,
\* every column that had dtype object has dtype string, every other column
\* keeps its dtype and values, and the columns, their order and the rows are
\* those of the frame that was passed in.
C8_CastExactlyObjectColumns ==
    pc = "event_time" =>
        LET a == transaction_data
            b == csv_data
        IN  /\ Len(a.cols) = Len(b.cols)
            /\ a.index = b.index
            /\ ObjectColumns(a) = {}
            /\ \A i \in DOMAIN b.cols :
                  /\ a.cols[i].label = b.cols[i].label
                  /\ Len(a.cols[i].vals) = Len(b.cols[i].vals)
                  /\ IF b.cols[i].dtype = "object"
                     THEN a.cols[i].dtype = "string"
                     ELSE a.cols[i] = b.cols[i]

\* the cast has returned on a frame of three rows with two object columns,
\* one of them with a missing cell, and two columns of other dtypes
C8_Witness ==
    /\ pc = "event_time"
    /\ Cardinality(ObjectColumns(csv_data)) = 2
    /\ Len(csv_data.cols) = 4
    /\ NRows(csv_data) = 3
    /\ \E i \in ObjectColumns(csv_data) : csv_data.cols[i].vals[2] = NaN

\* Column i of the frame before the event_time assignment is column i of the
\* frame after it, unchanged.
ColumnKept(i) ==
    /\ i \in DOMAIN transaction_data.cols
    /\ transaction_data.cols[i] = pre_event_time.cols[i]

EventTimeIs(df, t) ==
    /\ event_time_feature_name \in Labels(df)
    /\ LET c == Column(df, event_time_feature_name)
       IN  /\ c.dtype = "float64"
           /\ Len(c.vals) = NRows(df)
           /\ \A r \in 1..NRows(df) : c.vals[r] = [t |-> "float", n |-> t, s |-> ""]

\* C10: from the event_time assignment on, every row of the frame, and so
\* every row handed to ingest, has event_time equal to the one value
\* current_time_sec, as float64, whatever the row and whatever event_time
\* the CSV held; no row lacks it.
C10_SameEventTimeEveryRow ==
    /\ Rank(Position) > Rank("event_time") =>
          /\ current_time_sec \in Times
          /\ NRows(transaction_data) = NRows(csv_data)
          /\ EventTimeIs(transaction_data, current_time_sec)
    /\ ingestion.started => EventTimeIs(ingestion.data, current_time_sec)

\* three rows were handed to ingest, from a CSV whose own event_time column
\* had a text in the first row and a missing cell in the second
C10_Witness ==
    /\ ingestion.started
    /\ NRows(ingestion.data) = 3
    /\ event_time_feature_name \in Labels(csv_data)
    /\ Column(csv_data, event_time_feature_name).vals[1].t = "str"
    /\ Column(csv_data, event_time_feature_name).vals[2] = NaN

\* The rows handed to ingest whose record identifier reads as the key.
RowsWithKey(key) == {r \in AllRows : RecordKey(ingestion.data, r) = key}

\* C4: when get_record for "100" returns a record after ingest returned,
\* every row of transaction_data was put and none failed; and when every row
\* was put and the data holds record_id 100, the lookup returns the values
\* of that row.
C4_LookupConfirmsIngestion ==
    lookup.calls > 0 =>
        /\ lookup.found =>
              ingestion.put = AllRows /\ ingestion.failed = {}
        /\ (ingestion.put = AllRows /\ RowsWithKey("100") # {}) =>
              /\ lookup.found
              /\ \A r \in RowsWithKey("100") :
                    lookup.record = RecordOf(ingestion.data, r)

\* C6: every row handed to ingest carries a record_id, an event_time and a
\* value for each feature definition loaded from the data frame, and no two
\* rows handed to ingest share a record_id.
C6_UniqueIdentifierAndAllValues ==
    ingestion.started =>
        LET df == ingestion.data
        IN  /\ {record_identifier_feature_name, event_time_feature_name}
                  \subseteq Labels(df)
            /\ \A r \in AllRows : \A i \in DOMAIN fd_feature_group.defs :
                  /\ fd_feature_group.defs[i].FeatureName \in Labels(df)
                  /\ Column(df, fd_feature_group.defs[i].FeatureName).vals[r] # NaN
            /\ \A r1, r2 \in AllRows :
                  r1 # r2 => RecordKey(df, r1) # RecordKey(df, r2)

\* The polls that answered "Creating".
CreatingPolls(polled) == SelectSeq(polled, LAMBDA s : s = "Creating")

\* The wait has returned or raised its RuntimeError.
WaitDecided == wait.success \/ WaitRaised

\* C12: describe() is called once on entry and once after each 5-second
\* sleep: when k polls answered "Creating" before the terminal one, the
\* function made k+1 describe calls, k sleeps and k "Waiting" prints, and it
\* decides between Created and failed on the last polled status, with no
\* describe call between the end of the loop and the check.
C12_PollingDiscipline ==
    LET p == service.polled
        n == Len(p)
        k == Len(CreatingPolls(p))
    IN  /\ n > 0 =>
              /\ wait.describes = wait.sleeps + 1
              /\ wait.prints = wait.sleeps
              /\ status = p[n]
              /\ \A i \in 1..(n - 1) : p[i] = "Creating"
        /\ n = 0 => wait.describes = 0 /\ wait.sleeps = 0 /\ wait.prints = 0
        /\ Terminal(p) # <<>> =>
              /\ n = k + 1 /\ p[n] # "Creating"
              /\ wait.describes = k + 1
              /\ wait.sleeps = k
              /\ wait.prints = k
        /\ WaitDecided =>
              /\ Terminal(p) # <<>>
              /\ status = p[n]
              /\ wait.success <=> p[n] = "Created"
              /\ WaitRaised <=> p[n] # "Created"

\* the recorded run: three polls answered "Creating", the fourth "Created";
\* three prints, three sleeps, four describe calls, then the success message
C12_Witness ==
    /\ wait.success
    /\ service.polled = <<"Creating", "Creating", "Creating", "Created">>
    /\ wait.prints = 3 /\ wait.sleeps = 3 /\ wait.describes = 4

\* The run is inside wait_for_feature_group_creation_complete.
InWait == pc \in {"wait_enter", "wait_loop"}

\* C11: the wait terminates exactly when some poll answers a status other
\* than "Creating".  Once a poll has answered another status the function
\* returns or raises, and with a service that stops answering "Creating" the
\* wait ends; it returns or raises only after such a poll; and while the
\* last poll answered "Creating" it stays in the loop, whose next poll is
\* due whatever the number of polls made (no timeout, no maximum), so that
\* only an exception of describe itself can end it.
C11_TerminatesIffNotCreating ==
    /\ (pc = "wait_loop" /\ status # "Creating") ~> WaitDecided
    /\ InWait ~> ~InWait
    /\ [](WaitDecided => Terminal(service.polled) # <<>>)
    /\ []((pc = "wait_loop" /\ status = "Creating") => ENABLED WaitIterate)
    /\ [][(pc = "wait_loop" /\ status = "Creating") =>
             (pc' = "wait_loop" \/ (pc' = "halted" /\ err'.origin = "sdk"))]_vars

\* three polls have answered "Creating" and the function is still waiting
C11_Witness ==
    /\ pc = "wait_loop"
    /\ status = "Creating"
    /\ service.polled = <<"Creating", "Creating", "Creating">>
    /\ wait.sleeps = 2

====
